---- MODULE Spec2Model ----
(***************************************************************************)
(* EchoVerse (Tech-Thunder): the tone rewriter, the mock speech            *)
(* synthesizer and the Streamlit session state of                          *)
(* "GEN AI HACKATHON/import streamlit as st.py".                           *)
(*                                                                         *)
(* A text is a sequence of characters, each character a one-element        *)
(* string; U+00E9 (two bytes in UTF-8) is written "U+00E9", the grave     *)
(* accent "U+0060".                                                        *)
(* A byte string is a sequence of numbers in 0..255.  One step of the      *)
(* model is one run of main(), triggered by one user event.                *)
(***************************************************************************)
EXTENDS Integers, Sequences, FiniteSets, TLC

----------------------------------------------------------------------------
(* Characters, code points and the codecs the program calls.               *)

\* The printable ASCII characters in code-point order, U+0020 .. U+007E.
Ascii ==
  <<" ", "!", "\"", "#", "$", "%", "&", "'", "(", ")", "*", "+", ",", "-", ".", "/", "0", "1", "2", "3", "4", "5", "6", "7", "8", "9", ":", ";", "<", "=", ">", "?", "@", "A", "B", "C", "D", "E", "F", "G", "H", "I", "J", "K", "L", "M", "N", "O", "P", "Q", "R", "S", "T", "U", "V", "W", "X", "Y", "Z", "[", "\\", "]", "^", "_", "U+0060", "a", "b", "c", "d", "e", "f", "g", "h", "i", "j", "k", "l", "m", "n", "o", "p", "q", "r", "s", "t", "u", "v", "w", "x", "y", "z", "{", "|", "}", "~">>

\* Code points of the characters the model writes.
CodePoint ==
  [c \in {Ascii[i] : i \in 1..Len(Ascii)} \cup {"\t", "\n", "U+00E9"} |->
     IF c = "\t" THEN 9
     ELSE IF c = "\n" THEN 10
     ELSE IF c = "U+00E9" THEN 233
     ELSE 31 + (CHOOSE i \in 1..Len(Ascii) : Ascii[i] = c)]

Ord(c) == CodePoint[c]

\* The character of a code point, for the code points the model writes.
Character ==
  [n \in {CodePoint[c] : c \in DOMAIN CodePoint} |->
     CHOOSE c \in DOMAIN CodePoint : CodePoint[c] = n]

Chr(n) == Character[n]

IsChr(n) == n \in DOMAIN Character

RECURSIVE Flatten(_)
Flatten(ss) == IF ss = <<>> THEN <<>> ELSE Head(ss) \o Flatten(Tail(ss))

\* str.encode(): UTF-8, one byte below U+0080 and two bytes below U+0800.
EncodeChar(c) ==
  IF Ord(c) < 128 THEN <<Ord(c)>>
  ELSE <<192 + (Ord(c) \div 64), 128 + (Ord(c) % 64)>>

encode(text) == Flatten([i \in 1..Len(text) |-> EncodeChar(text[i])])

\* The number of bytes of the UTF-8 sequence that starts bytes, 0 where no
\* valid sequence starts there (a stray continuation byte, an overlong or
\* truncated sequence, a byte that starts no sequence).  Lead bytes of
\* three- and four-byte sequences (224..244) are outside the model's files.
SeqLen(bytes) ==
  IF bytes[1] < 128 THEN 1
  ELSE IF bytes[1] >= 194 /\ bytes[1] <= 223 /\ Len(bytes) >= 2
          /\ bytes[2] >= 128 /\ bytes[2] <= 191 THEN 2
  ELSE 0

\* The code point of the sequence that starts bytes.
SeqCodePoint(bytes) ==
  IF SeqLen(bytes) = 1 THEN bytes[1]
  ELSE (bytes[1] - 192) * 64 + (bytes[2] - 128)

RECURSIVE Decodable(_)
Decodable(bytes) ==
  \/ bytes = <<>>
  \/ /\ SeqLen(bytes) > 0
     /\ IsChr(SeqCodePoint(bytes))
     /\ Decodable(SubSeq(bytes, SeqLen(bytes) + 1, Len(bytes)))

RECURSIVE DecodedText(_)
DecodedText(bytes) ==
  IF bytes = <<>> THEN <<>>
  ELSE <<Chr(SeqCodePoint(bytes))>>
       \o DecodedText(SubSeq(bytes, SeqLen(bytes) + 1, Len(bytes)))

\* bytes.decode("utf-8"): [ok, text]; ok is FALSE where Python raises
\* UnicodeDecodeError.
decode(bytes) ==
  IF Decodable(bytes) THEN [ok |-> TRUE, text |-> DecodedText(bytes)]
  ELSE [ok |-> FALSE, text |-> <<>>]

\* str.isspace() on the model's characters.
IsSpace(c) == c \in {" ", "\t", "\n"}

RECURSIVE lstrip(_)
lstrip(s) == IF s /= <<>> /\ IsSpace(Head(s)) THEN lstrip(Tail(s)) ELSE s

RECURSIVE rstrip(_)
rstrip(s) ==
  IF s /= <<>> /\ IsSpace(s[Len(s)]) THEN rstrip(SubSeq(s, 1, Len(s) - 1)) ELSE s

\* str.strip(): leading and trailing whitespace removed.
strip(s) == rstrip(lstrip(s))

\* str.lower(): A..Z to a..z, every other character of the model unchanged.
LowerChar(c) ==
  IF Ord(c) >= 65 /\ Ord(c) <= 90 THEN Chr(Ord(c) + 32) ELSE c

lower(s) == [i \in 1..Len(s) |-> LowerChar(s[i])]

\* The base64 alphabet, value 0 first.
B64Alphabet ==
  <<"A", "B", "C", "D", "E", "F", "G", "H", "I", "J", "K", "L", "M", "N", "O", "P", "Q", "R", "S", "T", "U", "V", "W", "X", "Y", "Z", "a", "b", "c", "d", "e", "f", "g", "h", "i", "j", "k", "l", "m", "n", "o", "p", "q", "r", "s", "t", "u", "v", "w", "x", "y", "z", "0", "1", "2", "3", "4", "5", "6", "7", "8", "9", "+", "/">>

B64Char(v) == B64Alphabet[v + 1]

B64Index ==
  [c \in {B64Alphabet[i] : i \in 1..Len(B64Alphabet)} |->
     (CHOOSE i \in 1..Len(B64Alphabet) : B64Alphabet[i] = c) - 1]

B64Value(c) == B64Index[c]

\* base64.b64encode: three bytes to four characters, "=" padding.
RECURSIVE b64encode(_)
b64encode(bytes) ==
  IF bytes = <<>> THEN <<>>
  ELSE IF Len(bytes) = 1 THEN
    <<B64Char(bytes[1] \div 4), B64Char((bytes[1] % 4) * 16), "=", "=">>
  ELSE IF Len(bytes) = 2 THEN
    <<B64Char(bytes[1] \div 4),
      B64Char((bytes[1] % 4) * 16 + (bytes[2] \div 16)),
      B64Char((bytes[2] % 16) * 4), "=">>
  ELSE
    <<B64Char(bytes[1] \div 4),
      B64Char((bytes[1] % 4) * 16 + (bytes[2] \div 16)),
      B64Char((bytes[2] % 16) * 4 + (bytes[3] \div 64)),
      B64Char(bytes[3] % 64)>>
    \o b64encode(SubSeq(bytes, 4, Len(bytes)))

\* base64.b64decode of b64encode's output: four characters to three bytes,
\* fewer where the group is padded.
RECURSIVE b64decode(_)
b64decode(chars) ==
  IF Len(chars) < 4 THEN <<>>
  ELSE LET a == B64Value(chars[1])
           b == B64Value(chars[2])
           rest == b64decode(SubSeq(chars, 5, Len(chars))) IN
    IF chars[3] = "=" THEN <<a * 4 + (b \div 16)>> \o rest
    ELSE LET c == B64Value(chars[3]) IN
      IF chars[4] = "=" THEN
        <<a * 4 + (b \div 16), (b % 16) * 16 + (c \div 4)>> \o rest
      ELSE
        <<a * 4 + (b \div 16), (b % 16) * 16 + (c \div 4),
          (c % 4) * 64 + B64Value(chars[4])>> \o rest

\* None; a bytes object (a record, so that it compares with None); and the
\* truth value Python gives a str and an optional bytes.
None == [none |-> TRUE]

Bytes(chars) == [bytes |-> chars]

Truthy(text) == text /= <<>>

TruthyBytes(v) == v /= None /\ v.bytes /= <<>>

----------------------------------------------------------------------------
(* The string literals of the program.                                     *)

\* Tone and voice labels as texts.
Chars ==
  [s \in {"Neutral", "Suspenseful", "Inspiring", "Lisa", "Michael", "Allison"} |->
     CASE s = "Neutral" -> <<"N", "e", "u", "t", "r", "a", "l">>
       [] s = "Suspenseful" -> <<"S", "u", "s", "p", "e", "n", "s", "e", "f", "u", "l">>
       [] s = "Inspiring" -> <<"I", "n", "s", "p", "i", "r", "i", "n", "g">>
       [] s = "Lisa" -> <<"L", "i", "s", "a">>
       [] s = "Michael" -> <<"M", "i", "c", "h", "a", "e", "l">>
       [] s = "Allison" -> <<"A", "l", "l", "i", "s", "o", "n">>]

tone_options == <<"Neutral", "Suspenseful", "Inspiring">>

voice_options == <<"Lisa", "Michael", "Allison">>

Tones == {tone_options[i] : i \in 1..Len(tone_options)}

Voices == {voice_options[i] : i \in 1..Len(voice_options)}

----------------------------------------------------------------------------
(* MockWatsonxLLM.rewrite_text                                             *)

\* Whether old occurs in s at index i.
OccursAt(s, old, i) ==
  /\ i + Len(old) - 1 <= Len(s)
  /\ \A k \in 1..Len(old) : s[i + k - 1] = old[k]

\* str.find: the lowest index at which old occurs in s, 0 when it does not.
Find(s, old) ==
  LET at == {i \in 1..Len(s) : OccursAt(s, old, i)} IN
  IF at = {} THEN 0 ELSE CHOOSE i \in at : \A j \in at : i <= j

ReplaceFirstOnly(s, old, new) ==
  LET i == Find(s, old) IN
  IF i = 0 THEN s
  ELSE SubSeq(s, 1, i - 1) \o new \o SubSeq(s, i + Len(old), Len(s))

\* str.replace(old, new) with a non-empty old: every occurrence, leftmost
\* first, non-overlapping; the replacement text is not searched again.
RECURSIVE replace(_, _, _)
replace(s, old, new) ==
  LET i == Find(s, old) IN
  IF i = 0 THEN s
  ELSE SubSeq(s, 1, i - 1) \o new
       \o replace(SubSeq(s, i + Len(old), Len(s)), old, new)

SuspensefulBody(text) ==
  replace(replace(replace(text, <<".">>, <<".", ".", ".", " ">>),
                  <<"i", "m", "p", "o", "r", "t", "a", "n", "t">>, <<"c", "r", "u", "c", "i", "a", "l">>),
          <<"w", "i", "l", "l">>, <<"s", "h", "a", "l", "l">>)

InspiringBody(text) ==
  replace(replace(replace(text, <<"c", "a", "n">>, <<"h", "a", "v", "e", " ", "t", "h", "e", " ", "p", "o", "w", "e", "r", " ", "t", "o">>),
                  <<"s", "h", "o", "u", "l", "d">>, <<"a", "r", "e", " ", "d", "e", "s", "t", "i", "n", "e", "d", " ", "t", "o">>),
          <<"d", "i", "f", "f", "i", "c", "u", "l", "t">>, <<"c", "h", "a", "l", "l", "e", "n", "g", "i", "n", "g", " ", "y", "e", "t", " ", "c", "o", "n", "q", "u", "e", "r", "a", "b", "l", "e">>)

\* NeutralBody without line 45.
NeutralBodyKeepsBang(text) ==
  replace(replace(text, <<"a", "m", "a", "z", "i", "n", "g">>, <<"n", "o", "t", "a", "b", "l", "e">>),
          <<"a", "w", "e", "s", "o", "m", "e">>, <<"e", "f", "f", "e", "c", "t", "i", "v", "e">>)

NeutralBody(text) ==
  replace(replace(replace(text, <<"!">>, <<".">>),
                  <<"a", "m", "a", "z", "i", "n", "g">>, <<"n", "o", "t", "a", "b", "l", "e">>),
          <<"a", "w", "e", "s", "o", "m", "e">>, <<"e", "f", "f", "e", "c", "t", "i", "v", "e">>)

\* rewrite_text that wraps before it replaces.
rewrite_text_wraps_first(text, tone) ==
  IF tone = "Suspenseful" THEN
    SuspensefulBody(
      <<"W", "h", "a", "t", " ", "l", "i", "e", "s", " ", "a", "h", "e", "a", "d", "?", " ">>
      \o text \o
      <<" ", "T", "h", "e", " ", "a", "n", "s", "w", "e", "r", " ", "m", "a", "y", " ", "s", "u", "r", "p", "r", "i", "s", "e", " ", "y", "o", "u", ".">>)
  ELSE IF tone = "Inspiring" THEN
    InspiringBody(
      <<"I", "m", "a", "g", "i", "n", "e", " ", "t", "h", "e", " ", "p", "o", "s", "s", "i", "b", "i", "l", "i", "t", "i", "e", "s", ":", " ">>
      \o text \o
      <<" ", "Y", "o", "u", "r", " ", "j", "o", "u", "r", "n", "e", "y", " ", "b", "e", "g", "i", "n", "s", " ", "n", "o", "w", "!">>)
  ELSE IF tone = "Neutral" THEN NeutralBody(text)
  ELSE text

rewrite_text(text, tone) ==
  IF tone = "Suspenseful" THEN
    <<"W", "h", "a", "t", " ", "l", "i", "e", "s", " ", "a", "h", "e", "a", "d", "?", " ">>
    \o SuspensefulBody(text) \o
    <<" ", "T", "h", "e", " ", "a", "n", "s", "w", "e", "r", " ", "m", "a", "y", " ", "s", "u", "r", "p", "r", "i", "s", "e", " ", "y", "o", "u", ".">>
  ELSE IF tone = "Inspiring" THEN
    <<"I", "m", "a", "g", "i", "n", "e", " ", "t", "h", "e", " ", "p", "o", "s", "s", "i", "b", "i", "l", "i", "t", "i", "e", "s", ":", " ">>
    \o InspiringBody(text) \o
    <<" ", "Y", "o", "u", "r", " ", "j", "o", "u", "r", "n", "e", "y", " ", "b", "e", "g", "i", "n", "s", " ", "n", "o", "w", "!">>
  ELSE IF tone = "Neutral" THEN NeutralBody(text)
  ELSE text

----------------------------------------------------------------------------
(* MockWatsonTTS.synthesize                                                *)

\* The slice bound of text[:50].
SliceLen == 50

\* A slice that takes one character more.
SliceOneMore(text, n) == SubSeq(text, 1, IF Len(text) < n + 1 THEN Len(text) ELSE n + 1)

Slice(text, n) == SubSeq(text, 1, IF Len(text) < n THEN Len(text) ELSE n)

AsBytes(chars) == [i \in 1..Len(chars) |-> Ord(chars[i])]

\* b"MOCK_AUDIO_DATA_" + text[:50].encode() + b"_" + voice.encode()
audio_data_bytes(text, voice) ==
  AsBytes(<<"M", "O", "C", "K", "_", "A", "U", "D", "I", "O", "_", "D", "A", "T", "A", "_">>)
  \o encode(Slice(text, SliceLen)) \o AsBytes(<<"_">>) \o encode(Chars[voice])

synthesize(text, voice) == Bytes(b64encode(audio_data_bytes(text, voice)))

----------------------------------------------------------------------------
(* Session state and one run of main()                                     *)

\* The state after initialize_session_state() on a fresh session.
initialize_session_state ==
  [original_text |-> <<>>,
   rewritten_text |-> <<>>,
   selected_tone |-> "Neutral",
   selected_voice |-> "Lisa",
   audio_data |-> None]

\* An uploaded file: whether read() returns, and the bytes it returns.
UploadedFile(readable, bytes) == [readable |-> readable, bytes |-> bytes]

\* process_uploaded_file that decodes with errors="replace" and returns the
\* text it could decode beside the error.
process_uploaded_file_lossy(uploaded_file) ==
  IF uploaded_file.readable /\ decode(uploaded_file.bytes).ok
  THEN [content |-> strip(decode(uploaded_file.bytes).text), error |-> FALSE]
  ELSE [content |-> <<"?">>, error |-> TRUE]

\* process_uploaded_file: the stripped text, or "" and an error message when
\* read() or decode() raises.
process_uploaded_file(uploaded_file) ==
  IF uploaded_file.readable /\ decode(uploaded_file.bytes).ok
  THEN [content |-> strip(decode(uploaded_file.bytes).text), error |-> FALSE]
  ELSE [content |-> <<>>, error |-> TRUE]

\* The sidebar: both selectboxes are written back into the session.
Sidebar(s, voice, tone) ==
  [s EXCEPT !.selected_voice = voice, !.selected_tone = tone]

\* ResetDownstream without line 171 and line 185: audio_data is kept.
ResetDownstreamKeepsAudio(s, text) ==
  [s EXCEPT !.original_text = text, !.rewritten_text = <<>>]

\* The fields a replacement of original_text resets.
ResetDownstream(s, text) ==
  [s EXCEPT !.original_text = text, !.rewritten_text = <<>>, !.audio_data = None]

\* PasteText without lines 170 and 171: only original_text is written.
PasteTextNoReset(s, text_input) ==
  [s EXCEPT !.original_text = text_input]

\* "Paste Text": the text area's value replaces original_text when it differs.
PasteText(s, text_input) ==
  IF text_input /= s.original_text THEN ResetDownstream(s, text_input) ELSE s

\* "Upload File": the file's content replaces original_text when it is
\* non-empty and differs.
UploadFile(s, uploaded_file) ==
  IF uploaded_file /= None
  THEN LET file_content == process_uploaded_file(uploaded_file).content IN
       IF Truthy(file_content) /\ file_content /= s.original_text
       THEN ResetDownstream(s, file_content)
       ELSE s
  ELSE s

InputColumn(s, input_method, text_input, uploaded_file) ==
  IF input_method = "Paste Text" THEN PasteText(s, text_input)
  ELSE UploadFile(s, uploaded_file)

\* ToneColumn that drops the audio of the text it replaces.
ToneColumnDropsAudio(s, clicked, llm_raises) ==
  IF Truthy(s.original_text) /\ clicked /\ ~llm_raises
  THEN [s EXCEPT !.rewritten_text = rewrite_text(s.original_text, s.selected_tone),
                 !.audio_data = None]
  ELSE s

\* ToneColumn that clears rewritten_text before the call, so that a call
\* that raises leaves it empty.
ToneColumnClearsFirst(s, clicked, llm_raises) ==
  IF Truthy(s.original_text) /\ clicked
  THEN [s EXCEPT !.rewritten_text =
          IF llm_raises THEN <<>>
          ELSE rewrite_text(s.original_text, s.selected_tone)]
  ELSE s

\* The rewrite button, shown when original_text is truthy; llm_raises is
\* whether rewrite_text raises.
ToneColumn(s, clicked, llm_raises) ==
  IF Truthy(s.original_text) /\ clicked /\ ~llm_raises
  THEN [s EXCEPT !.rewritten_text = rewrite_text(s.original_text, s.selected_tone)]
  ELSE s

\* The audio button, shown when rewritten_text is truthy; tts_raises is
\* whether synthesize raises.
AudioColumn(s, clicked, tts_raises) ==
  IF Truthy(s.rewritten_text) /\ clicked /\ ~tts_raises
  THEN [s EXCEPT !.audio_data = synthesize(s.rewritten_text, s.selected_voice)]
  ELSE s

\* filename without the two lower() calls.
filename_as_selected(tone, voice) ==
  <<"a", "u", "d", "i", "o", "b", "o", "o", "k", "_">> \o Chars[tone] \o <<"_">>
  \o Chars[voice] \o <<".", "m", "p", "3">>

\* f"audiobook_{tone.lower()}_{voice.lower()}.mp3"
filename(tone, voice) ==
  <<"a", "u", "d", "i", "o", "b", "o", "o", "k", "_">> \o lower(Chars[tone]) \o <<"_">>
  \o lower(Chars[voice]) \o <<".", "m", "p", "3">>

\* The download button of a run that ends in session s, None when the run
\* shows none.
DownloadButton(s) ==
  IF Truthy(s.rewritten_text) /\ TruthyBytes(s.audio_data)
  THEN [file_name |-> filename(s.selected_tone, s.selected_voice),
        data |-> b64decode(s.audio_data.bytes),
        mime |-> "audio/mp3"]
  ELSE None

\* The widgets' values in one run: the selectboxes, the radio, the text
\* area, the file uploader, the buttons, and whether the two calls raise.
Widgets(voice, tone, method, text, file, gen, llm_raises, audio, tts_raises, dl) ==
  [voice |-> voice, tone |-> tone, input_method |-> method,
   text_input |-> text, uploaded_file |-> file,
   gen_clicked |-> gen, llm_raises |-> llm_raises,
   audio_clicked |-> audio, tts_raises |-> tts_raises,
   download_clicked |-> dl]

\* What a run shows through st.error and st.success: s1 is the session after
\* the input column, s2 after the tone column, s3 at the end of the run.
Messages(w, s1, s2, s3) ==
  {m \in {"Error reading file", "Text successfully adapted!",
          "Error processing text", "Audio generated successfully!",
          "Error generating audio", "Download started!"} :
     \/ /\ m = "Error reading file"
        /\ w.input_method = "Upload File" /\ w.uploaded_file /= None
        /\ process_uploaded_file(w.uploaded_file).error
     \/ /\ m = "Text successfully adapted!"
        /\ Truthy(s1.original_text) /\ w.gen_clicked /\ ~w.llm_raises
     \/ /\ m = "Error processing text"
        /\ Truthy(s1.original_text) /\ w.gen_clicked /\ w.llm_raises
     \/ /\ m = "Audio generated successfully!"
        /\ Truthy(s2.rewritten_text) /\ w.audio_clicked /\ ~w.tts_raises
     \/ /\ m = "Error generating audio"
        /\ Truthy(s2.rewritten_text) /\ w.audio_clicked /\ w.tts_raises
     \/ /\ m = "Download started!"
        /\ DownloadButton(s3) /= None /\ w.download_clicked}

\* One run of main() on session s0 with widget values w: the session it
\* leaves and the messages it shows.  initialize_session_state() writes
\* nothing in a session whose keys exist, which is every run after Init.
main(s0, w) ==
  LET s1 == InputColumn(Sidebar(s0, w.voice, w.tone),
                        w.input_method, w.text_input, w.uploaded_file)
      s2 == ToneColumn(s1, w.gen_clicked, w.llm_raises)
      s3 == AudioColumn(s2, w.audio_clicked, w.tts_raises) IN
  [session |-> s3, messages |-> Messages(w, s1, s2, s3)]

----------------------------------------------------------------------------
(* The inputs of the model                                                 *)

\* Texts are concatenations of at most MaxPaste fragments.
MaxPaste == 1

RECURSIVE Concats(_, _)
Concats(F, n) ==
  IF n = 0 THEN {<<>>}
  ELSE LET P == Concats(F, n - 1) IN P \cup {p \o f : p \in P, f \in F}

PasteFragments == {<<"!">>}

PasteTexts == Concats(PasteFragments, MaxPaste)

\* Uploaded files: " can\n", a file that is not UTF-8, and a file whose
\* read() raises.
Files ==
  {UploadedFile(TRUE, <<32, 99, 97, 110, 10>>),
   UploadedFile(TRUE, <<99, 255>>),
   UploadedFile(FALSE, <<>>)}

----------------------------------------------------------------------------
(* The session as a state machine: one step is one run of main()           *)

VARIABLES
  session_state,   \* st.session_state
  input_method,    \* the radio's value
  uploaded_file,   \* the file uploader's value, None when it holds no file
  messages,        \* what the last run showed through st.error, st.success
  event,           \* the user event that triggered the last run ("edit",
                   \* "upload", "select" of a voice or tone, "generate",
                   \* "audio", "other"), whether the call it made raised,
                   \* and whether audio_data was set when it happened
  call             \* a direct call of rewrite_text or synthesize, outside
                   \* any session: its arguments, its result once it has
                   \* returned, and the number of calls made before it

vars == <<session_state, input_method, uploaded_file, messages, event, call>>

\* No direct call: the session runs alone.
NoCall == [fn |-> "none"]

\* The download button on the page: the one the last run drew, at its end,
\* from the session it left.
download == DownloadButton(session_state)

Init ==
  /\ session_state = initialize_session_state
  /\ input_method = "Paste Text"
  /\ uploaded_file = None
  /\ messages = {}
  /\ event = [kind |-> "start", raises |-> FALSE, had_audio |-> FALSE]
  /\ call = NoCall

\* The widgets of a run in which the user touched none of them; file is what
\* the uploader hands to this run.
Idle(file) ==
  Widgets(session_state.selected_voice, session_state.selected_tone,
          input_method, session_state.original_text, file,
          FALSE, FALSE, FALSE, FALSE, FALSE)

\* The uploader's value in a later run: the file again, or the same stream
\* already read to its end.
Reread ==
  IF uploaded_file = None THEN {None}
  ELSE {uploaded_file, [uploaded_file EXCEPT !.bytes = <<>>]}

Event(kind, raises) ==
  [kind |-> kind, raises |-> raises,
   had_audio |-> session_state.audio_data /= None]

Rerun(w, ev) ==
  LET out == main(session_state, w) IN
  /\ session_state' = out.session
  /\ messages' = out.messages
  /\ event' = ev
  /\ UNCHANGED call

EditText(text) ==
  /\ input_method = "Paste Text"
  /\ text /= session_state.original_text
  /\ Rerun([Idle(None) EXCEPT !.text_input = text],
           Event("edit", FALSE))
  /\ UNCHANGED <<input_method, uploaded_file>>

Upload(file) ==
  /\ input_method = "Upload File"
  /\ uploaded_file' = file
  /\ Rerun(Idle(file), Event("upload", FALSE))
  /\ UNCHANGED input_method

RemoveFile ==
  /\ input_method = "Upload File"
  /\ uploaded_file /= None
  /\ uploaded_file' = None
  /\ Rerun(Idle(None), Event("other", FALSE))
  /\ UNCHANGED input_method

\* A widget that a run does not show loses its value: the uploader is empty
\* after a change of input method, the text area shows original_text.
ChooseInputMethod(method) ==
  /\ method /= input_method
  /\ input_method' = method
  /\ uploaded_file' = None
  /\ Rerun([Idle(None) EXCEPT !.input_method = method],
           Event("other", FALSE))

SelectVoice(voice) ==
  /\ voice /= session_state.selected_voice
  /\ \E file \in Reread :
       Rerun([Idle(file) EXCEPT !.voice = voice],
             Event("select", FALSE))
  /\ UNCHANGED <<input_method, uploaded_file>>

SelectTone(tone) ==
  /\ tone /= session_state.selected_tone
  /\ \E file \in Reread :
       Rerun([Idle(file) EXCEPT !.tone = tone],
             Event("select", FALSE))
  /\ UNCHANGED <<input_method, uploaded_file>>

\* The buttons on the page: the rewrite button is drawn when original_text
\* is truthy at that point of the run, the audio button when rewritten_text
\* is; neither field changes later in the run.
generate_button == Truthy(session_state.original_text)

audio_button == Truthy(session_state.rewritten_text)

ClickGenerate(llm_raises) ==
  /\ generate_button
  /\ \E file \in Reread :
       Rerun([Idle(file) EXCEPT !.gen_clicked = TRUE, !.llm_raises = llm_raises],
             Event("generate", llm_raises))
  /\ UNCHANGED <<input_method, uploaded_file>>

ClickAudio(tts_raises) ==
  /\ audio_button
  /\ \E file \in Reread :
       Rerun([Idle(file) EXCEPT !.audio_clicked = TRUE, !.tts_raises = tts_raises],
             Event("audio", tts_raises))
  /\ UNCHANGED <<input_method, uploaded_file>>

ClickDownload ==
  /\ download /= None
  /\ \E file \in Reread :
       Rerun([Idle(file) EXCEPT !.download_clicked = TRUE],
             Event("other", FALSE))
  /\ UNCHANGED <<input_method, uploaded_file>>

Next ==
  \/ \E text \in PasteTexts : EditText(text)
  \/ \E file \in Files : Upload(file)
  \/ RemoveFile
  \/ \E method \in {"Paste Text", "Upload File"} : ChooseInputMethod(method)
  \/ \E voice \in Voices : SelectVoice(voice)
  \/ \E tone \in Tones : SelectTone(tone)
  \/ \E llm_raises \in BOOLEAN : ClickGenerate(llm_raises)
  \/ \E tts_raises \in BOOLEAN : ClickAudio(tts_raises)
  \/ ClickDownload

Spec == Init /\ [][Next]_vars

----------------------------------------------------------------------------
(* Direct calls of the two static methods, on inputs drawn from bounded    *)
(* sets                                                                    *)

\* Texts for rewrite_text are concatenations of at most MaxFragments
\* fragments, and the scenario text of the specification.
MaxFragments == 2

RewriteFragments ==
  {<<"!">>,
   <<".">>,
   <<"a", "m", "a", "z", "i", "n", "g">>,
   <<"a", "w", "e", "s", "o", "m", "e">>,
   <<"i", "m", "p", "o", "r", "t", "a", "n", "t">>,
   <<"w", "i", "l", "l">>,
   <<"c", "a", "n">>,
   <<"s", "h", "o", "u", "l", "d">>,
   <<"d", "i", "f", "f", "i", "c", "u", "l", "t">>,
   <<" ">>,
   <<"W", "i", "l", "l">>,
   <<"o", "w">>}

Scenario ==
  <<"T", "h", "i", "s", " ", "i", "s", " ", "a", "m", "a", "z", "i", "n", "g", "!", " ", "I", "t", " ", "w", "i", "l", "l", " ", "b", "e", " ", "i", "m", "p", "o", "r", "t", "a", "n", "t", ".">>

RewriteTexts == Concats(RewriteFragments, MaxFragments) \cup {Scenario}

\* Texts for synthesize: a run of "x" that ends at most two characters
\* before the slice bound, or no run, then at most MaxTail more characters.
MaxTail == 2

Pad(n) == [i \in 1..n |-> "x"]

SynthTexts ==
  {Pad(n) \o tail :
     n \in {0} \cup ((SliceLen - 2)..SliceLen),
     tail \in Concats({<<"a">>, <<"U+00E9">>}, MaxTail)}

\* At most MaxCalls calls follow the first one.
MaxCalls == 1

Pending(fn, text, label, n) ==
  [fn |-> fn, text |-> text, label |-> label, returned |-> FALSE,
   result |-> <<>>, n |-> n]

Inputs(fn) ==
  IF fn = "rewrite_text" THEN RewriteTexts \X Tones ELSE SynthTexts \X Voices

\* The value the called method returns; for synthesize, the bytes.
Result(fn, text, label) ==
  IF fn = "rewrite_text" THEN rewrite_text(text, label)
  ELSE synthesize(text, label).bytes

InitCall(fn) ==
  /\ session_state = initialize_session_state
  /\ input_method = "Paste Text"
  /\ uploaded_file = None
  /\ messages = {}
  /\ event = [kind |-> "start", raises |-> FALSE, had_audio |-> FALSE]
  /\ \E in \in Inputs(fn) : call = Pending(fn, in[1], in[2], 0)

Return ==
  /\ call /= NoCall
  /\ ~call.returned
  /\ call' = [call EXCEPT !.returned = TRUE,
                          !.result = Result(call.fn, call.text, call.label)]
  /\ UNCHANGED <<session_state, input_method, uploaded_file, messages, event>>

Invoke ==
  /\ call /= NoCall
  /\ call.returned
  /\ call.n < MaxCalls
  /\ \E in \in Inputs(call.fn) :
       call' = Pending(call.fn, in[1], in[2], call.n + 1)
  /\ UNCHANGED <<session_state, input_method, uploaded_file, messages, event>>

\* rewrite_text: one call on each input.
InitRewrite == InitCall("rewrite_text")

SpecRewrite == InitRewrite /\ [][Return]_vars

\* synthesize: calls one after another.
InitSynth == InitCall("synthesize")

NextSynth == Return \/ Invoke

SpecSynth == InitSynth /\ [][NextSynth]_vars

----------------------------------------------------------------------------
(* Properties                                                              *)

HasPrefix(s, p) == Len(s) >= Len(p) /\ SubSeq(s, 1, Len(p)) = p

HasSuffix(s, p) ==
  Len(s) >= Len(p) /\ SubSeq(s, Len(s) - Len(p) + 1, Len(s)) = p

\* The text an upload offers: the file's bytes decoded and stripped, None's
\* place taken by "" when the file cannot be read or decoded.
Offered(file) ==
  IF file.readable /\ decode(file.bytes).ok
  THEN strip(decode(file.bytes).text) ELSE <<>>

Unreadable(file) == ~file.readable \/ ~decode(file.bytes).ok

\* C1: a paste edit to a different text, or an upload whose decoded, stripped
\* content is non-empty and differs from the stored text, replaces
\* original_text and leaves rewritten_text empty and audio_data absent,
\* whatever they held before.
C1_ReplacementResetsDownstream ==
  [][/\ event'.kind = "edit" =>
          /\ session_state'.original_text /= session_state.original_text
          /\ session_state'.rewritten_text = <<>>
          /\ session_state'.audio_data = None
     /\ (/\ event'.kind = "upload"
         /\ Offered(uploaded_file') /= <<>>
         /\ Offered(uploaded_file') /= session_state.original_text) =>
          /\ session_state'.original_text = Offered(uploaded_file')
          /\ session_state'.rewritten_text = <<>>
          /\ session_state'.audio_data = None]_vars

\* C1 witness: an edit made while audio was set has cleared both fields.
C1_Witness ==
  /\ event.kind = "edit"
  /\ event.had_audio
  /\ session_state.original_text /= <<>>
  /\ session_state.rewritten_text = <<>>
  /\ session_state.audio_data = None

\* C2: audio_data changes only when a synthesis request succeeds (set to the
\* synthesis of the current rewritten_text and voice) or when original_text
\* is replaced (cleared); a rewrite request and a change of tone or voice
\* leave it as it was.
C2_AudioChangesOnlyBySynthesisOrReplacement ==
  [][/\ session_state'.audio_data /= session_state.audio_data =>
          \/ /\ event'.kind = "audio" /\ ~event'.raises
             /\ session_state'.audio_data =
                  synthesize(session_state.rewritten_text,
                             session_state.selected_voice)
          \/ /\ session_state'.original_text /= session_state.original_text
             /\ session_state'.audio_data = None
     /\ event'.kind \in {"generate", "select"} =>
          session_state'.audio_data = session_state.audio_data
     /\ (\/ session_state'.selected_tone /= session_state.selected_tone
         \/ session_state'.selected_voice /= session_state.selected_voice) =>
          session_state'.audio_data = session_state.audio_data]_vars

\* C2 witness: a rewrite request has recomputed rewritten_text under audio
\* that was synthesized from another text.
C2_Witness ==
  /\ event.kind = "generate" /\ ~event.raises
  /\ session_state.audio_data /= None
  /\ session_state.audio_data /=
       synthesize(session_state.rewritten_text, session_state.selected_voice)

\* C3: a rewrite call that raises leaves rewritten_text, and a synthesis call
\* that raises leaves audio_data, as it was; the run shows the error, changes
\* no session field, and the page it draws still has the button, so that
\* the session accepts further actions.
C3_FailedCallKeepsState ==
  [][/\ (event'.kind = "generate" /\ event'.raises) =>
          /\ session_state' = session_state
          /\ "Error processing text" \in messages'
          /\ "Text successfully adapted!" \notin messages'
          /\ generate_button'
     /\ (event'.kind = "audio" /\ event'.raises) =>
          /\ session_state' = session_state
          /\ "Error generating audio" \in messages'
          /\ "Audio generated successfully!" \notin messages'
          /\ audio_button']_vars

\* C3 witness: a rewrite call has raised over a rewritten_text and an
\* audio_data that were set.
C3_Witness ==
  /\ event.kind = "generate" /\ event.raises
  /\ session_state.rewritten_text /= <<>>
  /\ session_state.audio_data /= None
  /\ "Error processing text" \in messages

\* C4: the upload of a file that cannot be read or decoded as UTF-8 shows an
\* error and changes no session field.
C4_UnreadableUploadKeepsState ==
  [][(event'.kind = "upload" /\ Unreadable(uploaded_file')) =>
       /\ session_state' = session_state
       /\ "Error reading file" \in messages']_vars

\* C4 witness: such an upload has happened over a session whose fields were
\* all set.
C4_Witness ==
  /\ event.kind = "upload"
  /\ Unreadable(uploaded_file)
  /\ "Error reading file" \in messages
  /\ session_state.original_text /= <<>>
  /\ session_state.rewritten_text /= <<>>
  /\ session_state.audio_data /= None

\* The replacement tables of C5, in order, and the wrappers.
Table(tone) ==
  CASE tone = "Neutral" ->
         <<<<<<"!">>, <<".">>>>,
           <<<<"a", "m", "a", "z", "i", "n", "g">>, <<"n", "o", "t", "a", "b", "l", "e">>>>,
           <<<<"a", "w", "e", "s", "o", "m", "e">>, <<"e", "f", "f", "e", "c", "t", "i", "v", "e">>>>>>
    [] tone = "Suspenseful" ->
         <<<<<<".">>, <<".", ".", ".", " ">>>>,
           <<<<"i", "m", "p", "o", "r", "t", "a", "n", "t">>, <<"c", "r", "u", "c", "i", "a", "l">>>>,
           <<<<"w", "i", "l", "l">>, <<"s", "h", "a", "l", "l">>>>>>
    [] tone = "Inspiring" ->
         <<<<<<"c", "a", "n">>, <<"h", "a", "v", "e", " ", "t", "h", "e", " ", "p", "o", "w", "e", "r", " ", "t", "o">>>>,
           <<<<"s", "h", "o", "u", "l", "d">>, <<"a", "r", "e", " ", "d", "e", "s", "t", "i", "n", "e", "d", " ", "t", "o">>>>,
           <<<<"d", "i", "f", "f", "i", "c", "u", "l", "t">>, <<"c", "h", "a", "l", "l", "e", "n", "g", "i", "n", "g", " ", "y", "e", "t", " ", "c", "o", "n", "q", "u", "e", "r", "a", "b", "l", "e">>>>>>

WrapperPrefix(tone) ==
  CASE tone = "Neutral" -> <<>>
    [] tone = "Suspenseful" -> <<"W", "h", "a", "t", " ", "l", "i", "e", "s", " ", "a", "h", "e", "a", "d", "?">>
    [] tone = "Inspiring" -> <<"I", "m", "a", "g", "i", "n", "e", " ", "t", "h", "e", " ", "p", "o", "s", "s", "i", "b", "i", "l", "i", "t", "i", "e", "s", ":">>

WrapperSuffix(tone) ==
  CASE tone = "Neutral" -> <<>>
    [] tone = "Suspenseful" -> <<"T", "h", "e", " ", "a", "n", "s", "w", "e", "r", " ", "m", "a", "y", " ", "s", "u", "r", "p", "r", "i", "s", "e", " ", "y", "o", "u", ".">>
    [] tone = "Inspiring" -> <<"Y", "o", "u", "r", " ", "j", "o", "u", "r", "n", "e", "y", " ", "b", "e", "g", "i", "n", "s", " ", "n", "o", "w", "!">>

\* Global literal replacement, read off the text from left to right: where
\* old starts, new is written and old is skipped; elsewhere the character is
\* copied.
RECURSIVE Substitute(_, _, _)
Substitute(s, old, new) ==
  IF s = <<>> THEN <<>>
  ELSE IF HasPrefix(s, old) THEN
    new \o Substitute(SubSeq(s, Len(old) + 1, Len(s)), old, new)
  ELSE <<Head(s)>> \o Substitute(Tail(s), old, new)

RECURSIVE SubstituteAll(_, _)
SubstituteAll(s, table) ==
  IF table = <<>> THEN s
  ELSE SubstituteAll(Substitute(s, Head(table)[1], Head(table)[2]), Tail(table))

\* C5: rewrite_text(t, tone) is the tone's replacements applied one after
\* another in the fixed order, each to the output of the previous one, then
\* the tone's wrapper (a blank between wrapper and body); the Neutral rewrite
\* of "This is amazing! It will be important." is
\* "This is notable. It will be important.".
C5_RewriteIsOrderedReplacement ==
  (call /= NoCall /\ call.returned) =>
    /\ call.result =
         IF call.label = "Neutral" THEN SubstituteAll(call.text, Table("Neutral"))
         ELSE WrapperPrefix(call.label) \o <<" ">>
              \o SubstituteAll(call.text, Table(call.label))
              \o <<" ">> \o WrapperSuffix(call.label)
    /\ (call.text = Scenario /\ call.label = "Neutral") =>
         call.result =
           <<"T", "h", "i", "s", " ", "i", "s", " ", "n", "o", "t", "a", "b", "l", "e", ".", " ", "I", "t", " ", "w", "i", "l", "l", " ", "b", "e", " ", "i", "m", "p", "o", "r", "t", "a", "n", "t", ".">>

\* C5 witness: the Neutral rewrite of the scenario text has returned.
C5_Witness ==
  /\ call /= NoCall /\ call.returned
  /\ call.text = Scenario /\ call.label = "Neutral"
  /\ call.result /= call.text

\* C6: the Neutral rewrite of any text holds no "!".
C6_NeutralHasNoBang ==
  (call /= NoCall /\ call.returned /\ call.label = "Neutral") =>
    \A i \in 1..Len(call.result) : call.result[i] /= "!"

\* C6 witness: the Neutral rewrite of a text with two "!" has returned.
C6_Witness ==
  /\ call /= NoCall /\ call.returned /\ call.label = "Neutral"
  /\ Cardinality({i \in 1..Len(call.text) : call.text[i] = "!"}) >= 2

\* C7: every Suspenseful rewrite starts with "What lies ahead? " and ends
\* with "The answer may surprise you.", every Inspiring rewrite starts with
\* "Imagine the possibilities: " and ends with "Your journey begins now!";
\* for the empty text the wrapper stands around an empty body, and the
\* Neutral rewrite of the empty text is empty.
C7_WrapperAroundEveryRewrite ==
  (call /= NoCall /\ call.returned) =>
    /\ call.label /= "Neutral" =>
         /\ HasPrefix(call.result, WrapperPrefix(call.label) \o <<" ">>)
         /\ HasSuffix(call.result, WrapperSuffix(call.label))
    /\ (call.text = <<>> /\ call.label /= "Neutral") =>
         call.result = WrapperPrefix(call.label) \o <<" ", " ">>
                       \o WrapperSuffix(call.label)
    /\ (call.text = <<>> /\ call.label = "Neutral") => call.result = <<>>

\* C7 witness: the Suspenseful rewrite of a text that ends in "." has
\* returned.
C7_Witness ==
  /\ call /= NoCall /\ call.returned /\ call.label = "Suspenseful"
  /\ call.text /= <<>> /\ call.text[Len(call.text)] = "."

\* The first n characters of a text.
FirstChars(text, n) == [i \in 1..(IF Len(text) < n THEN Len(text) ELSE n) |-> text[i]]

\* C8: the output of synthesize is the base64 encoding of the marker, the
\* first 50 characters of the text, the separator and the voice, so that any
\* call whose text agrees with this one on the first 50 characters and whose
\* voice is the same returns the same bytes, however many calls were made
\* before.
C8_SynthesizeDependsOnFirst50AndVoice ==
  (call /= NoCall /\ call.returned) =>
    /\ b64decode(call.result) =
         AsBytes(<<"M", "O", "C", "K", "_", "A", "U", "D", "I", "O", "_", "D", "A", "T", "A", "_">>)
         \o encode(FirstChars(call.text, 50)) \o <<95>> \o encode(Chars[call.label])
    /\ \A text \in SynthTexts :
         FirstChars(text, 50) = FirstChars(call.text, 50) =>
           synthesize(text, call.label).bytes = call.result

\* C8 witness: a later call has returned on a text longer than 50 characters
\* that shares its first 50 with another text.
C8_Witness ==
  /\ call /= NoCall /\ call.returned /\ call.n > 0
  /\ Len(call.text) > 50
  /\ \E text \in SynthTexts :
       text /= call.text /\ FirstChars(text, 50) = FirstChars(call.text, 50)

\* The lower-cased labels of C9.
LowerCased(label) ==
  CASE label = "Neutral" -> <<"n", "e", "u", "t", "r", "a", "l">>
    [] label = "Suspenseful" -> <<"s", "u", "s", "p", "e", "n", "s", "e", "f", "u", "l">>
    [] label = "Inspiring" -> <<"i", "n", "s", "p", "i", "r", "i", "n", "g">>
    [] label = "Lisa" -> <<"l", "i", "s", "a">>
    [] label = "Michael" -> <<"m", "i", "c", "h", "a", "e", "l">>
    [] label = "Allison" -> <<"a", "l", "l", "i", "s", "o", "n">>

\* C9: a download is offered exactly when audio_data is set and
\* rewritten_text is non-empty; its file name is "audiobook_", the current
\* tone lower-cased, "_", the current voice lower-cased, ".mp3", and its
\* payload is the stored audio_data base64-decoded.
C9_DownloadNameFollowsSelection ==
  /\ download /= None <=>
       (session_state.audio_data /= None /\ session_state.rewritten_text /= <<>>)
  /\ download /= None =>
       /\ download.file_name =
            <<"a", "u", "d", "i", "o", "b", "o", "o", "k", "_">>
            \o LowerCased(session_state.selected_tone) \o <<"_">>
            \o LowerCased(session_state.selected_voice) \o <<".", "m", "p", "3">>
       /\ b64encode(download.data) = session_state.audio_data.bytes

\* C9 witness: a download is offered whose audio was synthesized under
\* another voice or from another text than the current ones.
C9_Witness ==
  /\ download /= None
  /\ session_state.selected_tone /= "Neutral"
  /\ session_state.selected_voice /= "Lisa"
  /\ \A voice \in Voices :
       session_state.audio_data /= synthesize(session_state.rewritten_text, voice)

\* C10: audio_data set implies rewritten_text non-empty, and rewritten_text
\* non-empty implies original_text non-empty; a rewrite that succeeded left a
\* non-empty rewritten_text.
C10_DownstreamImpliesUpstream ==
  /\ session_state.audio_data /= None => session_state.rewritten_text /= <<>>
  /\ session_state.rewritten_text /= <<>> => session_state.original_text /= <<>>
  /\ (event.kind = "generate" /\ ~event.raises) =>
       session_state.rewritten_text /= <<>>

\* C10 witness: all three fields are set.
C10_Witness ==
  /\ session_state.audio_data /= None
  /\ session_state.rewritten_text /= <<>>
  /\ session_state.original_text /= <<>>

====
